---- MODULE Spec2Model ----
(***************************************************************************)
(* Model of the user-authentication core: UserService (user.service.ts),   *)
(* AuthService (auth.service.ts) and UserResolver (user.resolver.ts) over  *)
(* the Prisma user store.                                                  *)
(*                                                                         *)
(* Strings that carry credentials are sequences of naturals: a plaintext   *)
(* is a one-element sequence, a bcrypt hash string is the three-element    *)
(* sequence <<cost, salt, digest>>.  Emails and messages are TLA+ strings. *)
(* Every handler is cut at the awaits that reach the store.                *)
(***************************************************************************)
EXTENDS Naturals, Sequences, FiniteSets

(* ------------------------------ bounds --------------------------------- *)
NumSalts == 2
MaxUsers == 2
MaxKeys == 2

Emails == {"a@x.com", "b@x.com"}
Salts == 0 .. (NumSalts - 1)
Plaintexts == {<<1>>, <<2>>}
UserIds == 1 .. (MaxUsers + 1)
Procs == {"p1", "p2"}
SeqProc == "p1"
ConcPlaintexts == {<<1>>}

(* ------------------------------ bcrypt --------------------------------- *)
BcryptRounds == 10

Code(plain) == IF Len(plain) = 1 THEN plain[1] ELSE Cardinality(Plaintexts) + plain[3]

Digest(plain, salt) == (Code(plain) * NumSalts) + salt + 1

BcryptHash(plain, rounds, salt) == <<rounds, salt, Digest(plain, salt)>>

IsBcryptHash(s) == Len(s) = 3

BcryptCompare(plain, stored) ==
  /\ IsBcryptHash(stored)
  /\ BcryptHash(plain, stored[1], stored[2]) = stored

(* ------------------------------- values -------------------------------- *)
Null == [id |-> 0, email |-> "", password |-> <<>>, biometricKeys |-> <<>>]

NoToken == [payload |-> [email |-> "", sub |-> 0], expiresIn |-> ""]

NoArgs == [email |-> "", password |-> <<>>, biometricKey |-> <<>>, userId |-> 0, user |-> Null]

NoRet == [status |-> "none", error |-> "", message |-> <<>>, user |-> Null,
          exists |-> FALSE, token |-> NoToken, list |-> <<>>]

Resolved == [NoRet EXCEPT !.status = "ok"]

Rejected(error, message) ==
  [NoRet EXCEPT !.status = "error", !.error = error, !.message = <<message>>]

VARIABLES users, pc, op, args, local, ret, created, registered, trace

vars == <<users, pc, op, args, local, ret, created, registered, trace>>

RECURSIVE TotalKeys(_)
TotalKeys(us) ==
  IF us = <<>> THEN 0 ELSE Len(Head(us).biometricKeys) + TotalKeys(Tail(us))

InFlight(label) == Cardinality({p \in Procs : pc[p] = label})

(* --------------------------- the Prisma store -------------------------- *)
RECURSIVE PrismaFindFirst(_, _, _)
PrismaFindFirst(us, field, value) ==
  IF us = <<>> THEN Null
  ELSE IF Head(us)[field] = value THEN Head(us)
  ELSE PrismaFindFirst(Tail(us), field, value)

PrismaFindUnique(us, field, value) == PrismaFindFirst(us, field, value)

PrismaFindMany(us) == us

(* mutant: create without the unique constraint on email *)
PrismaCreate_noUnique(us, data) ==
  LET user == [id |-> Len(us) + 1, email |-> data.email,
               password |-> data.password, biometricKeys |-> data.biometricKeys]
  IN [users |-> Append(us, user), ret |-> [Resolved EXCEPT !.user = user]]

PrismaCreate(us, data) ==
  IF \E i \in 1 .. Len(us) : us[i].email = data.email
  THEN [users |-> us,
        ret |-> Rejected("PrismaClientKnownRequestError", "Unique constraint failed")]
  ELSE LET user == [id |-> Len(us) + 1, email |-> data.email,
                    password |-> data.password, biometricKeys |-> data.biometricKeys]
       IN [users |-> Append(us, user), ret |-> [Resolved EXCEPT !.user = user]]

PrismaUpdatePush(us, id, hashedKey) ==
  IF \E i \in 1 .. Len(us) : us[i].id = id
  THEN LET i == CHOOSE j \in 1 .. Len(us) : us[j].id = id
           user == [us[i] EXCEPT !.biometricKeys = Append(@, hashedKey)]
       IN [users |-> [us EXCEPT ![i] = user], ret |-> [Resolved EXCEPT !.user = user]]
  ELSE [users |-> us,
        ret |-> Rejected("PrismaClientKnownRequestError", "Record to update not found")]

(* ----------------------------- UserService ----------------------------- *)
findByEmail(us, email) == PrismaFindUnique(us, "email", email)

findAll(us) == PrismaFindMany(us)

(* mutant: the loop over the stored keys starts at the second key *)
RECURSIVE AnyKeyMatches_skipFirst(_, _)
AnyKeyMatches_skipFirst(biometricKey, storedKeys) ==
  IF Len(storedKeys) <= 1 THEN FALSE
  ELSE IF BcryptCompare(biometricKey, storedKeys[2]) THEN TRUE
  ELSE AnyKeyMatches_skipFirst(biometricKey, Tail(storedKeys))

RECURSIVE AnyKeyMatches(_, _)
AnyKeyMatches(biometricKey, storedKeys) ==
  IF storedKeys = <<>> THEN FALSE
  ELSE IF BcryptCompare(biometricKey, Head(storedKeys)) THEN TRUE
  ELSE AnyKeyMatches(biometricKey, Tail(storedKeys))

(* mutant: the scan keeps going and returns the last matching record *)
RECURSIVE ScanUsers_last(_, _)
ScanUsers_last(list, biometricKey) ==
  IF list = <<>> THEN Null
  ELSE LET later == ScanUsers_last(Tail(list), biometricKey)
       IN IF later # Null THEN later
          ELSE IF AnyKeyMatches(biometricKey, Head(list).biometricKeys) THEN Head(list)
          ELSE Null

RECURSIVE ScanUsers(_, _)
ScanUsers(list, biometricKey) ==
  IF list = <<>> THEN Null
  ELSE IF AnyKeyMatches(biometricKey, Head(list).biometricKeys) THEN Head(list)
  ELSE ScanUsers(Tail(list), biometricKey)

(* mutant: stored hashes are compared with the plaintext by string equality *)
findUserByBiometricKey_literal(us, biometricKey) ==
  LET list == PrismaFindMany(us)
      hits == {i \in 1 .. Len(list) :
                 \E n \in 1 .. Len(list[i].biometricKeys) : list[i].biometricKeys[n] = biometricKey}
  IN IF hits = {} THEN Null ELSE list[CHOOSE i \in hits : \A j \in hits : i <= j]

findUserByBiometricKey(us, biometricKey) == ScanUsers(PrismaFindMany(us), biometricKey)

(* mutant: the check is not scoped to the user's own hashes *)
biometricKeyExists_anyUser(us, userId, biometricKey) ==
  ScanUsers(PrismaFindMany(us), biometricKey) # Null

biometricKeyExists(us, userId, biometricKey) ==
  LET user == PrismaFindUnique(us, "id", userId)
  IN IF user # Null THEN AnyKeyMatches(biometricKey, user.biometricKeys) ELSE FALSE

(* ----------------------------- AuthService ----------------------------- *)
JwtExpiresIn == "1h"

JwtSign(payload) == [payload |-> payload, expiresIn |-> JwtExpiresIn]

(* mutant: the stored password is compared with the plaintext by equality *)
validateUser_plainEq(us, email, password) ==
  LET user == findByEmail(us, email)
  IN IF user # Null /\ password = user.password THEN user ELSE Null

(* mutant: the password check is dropped *)
validateUser_noPassword(us, email, password) == findByEmail(us, email)

validateUser(us, email, password) ==
  LET user == findByEmail(us, email)
  IN IF user # Null /\ BcryptCompare(password, user.password) THEN user ELSE Null

(* mutant: the whole record is signed *)
login_wholeUser(user) ==
  LET payload == [email |-> user.email, sub |-> user.id, password |-> user.password,
                  biometricKeys |-> user.biometricKeys]
  IN [Resolved EXCEPT !.token = JwtSign(payload)]

login(user) ==
  LET payload == [email |-> user.email, sub |-> user.id]
  IN [Resolved EXCEPT !.token = JwtSign(payload)]

(* mutant: the absent check is dropped *)
biometricLogin_unchecked(us, biometricKey) == login(findUserByBiometricKey(us, biometricKey))

biometricLogin(us, biometricKey) ==
  LET user == findUserByBiometricKey(us, biometricKey)
  IN IF user = Null THEN Rejected("BadRequestException", "Invalid biometric key")
     ELSE login(user)

(* ----------------------------- UserResolver ---------------------------- *)
register(outcome) ==
  IF outcome.status = "ok"
  THEN [Resolved EXCEPT !.message = <<"User ", outcome.user.email, " registered successfully">>]
  ELSE IF outcome.error = "ConflictException"
  THEN Rejected("ConflictException", "User already exists")
  ELSE Rejected("BadRequestException", "Registration failed")

(* mutant: the resolver's check verifies the plaintext against the hashes *)
biometricKeysIncludes_verify(user, biometricKey) ==
  AnyKeyMatches(biometricKey, user.biometricKeys)

biometricKeysIncludes(user, biometricKey) ==
  \E n \in 1 .. Len(user.biometricKeys) : user.biometricKeys[n] = biometricKey

(* mutant: the catch block rethrows the error it caught *)
registerWithBiometric_rethrow(outcome) ==
  IF outcome.status = "ok"
  THEN [Resolved EXCEPT !.message = <<"Biometric key added successfully for ", outcome.user.email>>]
  ELSE outcome

registerWithBiometric(outcome) ==
  IF outcome.status = "ok"
  THEN [Resolved EXCEPT !.message = <<"Biometric key added successfully for ", outcome.user.email>>]
  ELSE Rejected("BadRequestException", "Failed to set up biometric key")

(* mutant: the record found by email is logged in without validateUser *)
resolverLogin_byEmail(us, email, password) ==
  LET user == findByEmail(us, email)
      attempt == IF user = Null
                 THEN Rejected("BadRequestException", "Invalid email or password")
                 ELSE login(user)
  IN IF attempt.status = "ok" THEN attempt
     ELSE Rejected("BadRequestException", "Login failed")

resolverLogin(us, email, password) ==
  LET user == validateUser(us, email, password)
      attempt == IF user = Null
                 THEN Rejected("BadRequestException", "Invalid email or password")
                 ELSE login(user)
  IN IF attempt.status = "ok" THEN attempt
     ELSE Rejected("BadRequestException", "Login failed")

resolverBiometricLogin(us, biometricKey) ==
  LET attempt == biometricLogin(us, biometricKey)
  IN IF attempt.status = "ok" THEN [Resolved EXCEPT !.token = attempt.token]
     ELSE Rejected("BadRequestException", "Login failed")

Surface(entry, outcome) ==
  IF entry = "register" THEN register(outcome)
  ELSE IF entry = "registerWithBiometric" THEN registerWithBiometric(outcome)
  ELSE outcome

(* ------------------------------- requests ------------------------------ *)
Init ==
  /\ users = <<>>
  /\ pc = [p \in Procs |-> "idle"]
  /\ op = [p \in Procs |-> ""]
  /\ args = [p \in Procs |-> NoArgs]
  /\ local = [p \in Procs |-> <<>>]
  /\ ret = [p \in Procs |-> NoRet]
  /\ created = {}
  /\ registered = {}
  /\ trace = <<>>

Begin(p, entry, a) ==
  /\ pc[p] = "idle"
  /\ op' = [op EXCEPT ![p] = entry]
  /\ args' = [args EXCEPT ![p] = a]

Settle(p, outcome) ==
  /\ pc' = [pc EXCEPT ![p] = "done"]
  /\ ret' = [ret EXCEPT ![p] = outcome]

Answer(p, entry, a, outcome) ==
  /\ Begin(p, entry, a)
  /\ Settle(p, outcome)
  /\ UNCHANGED <<users, local, created, registered, trace>>

Consume(p) ==
  /\ pc[p] = "done"
  /\ pc' = [pc EXCEPT ![p] = "idle"]
  /\ op' = [op EXCEPT ![p] = ""]
  /\ args' = [args EXCEPT ![p] = NoArgs]
  /\ local' = [local EXCEPT ![p] = <<>>]
  /\ ret' = [ret EXCEPT ![p] = NoRet]
  /\ UNCHANGED <<users, created, registered>>

Return(p) == Consume(p) /\ UNCHANGED trace

(* mutant: createUser without the findByEmail pre-check *)
createUser_find_nocheck(p, entry, passwords) ==
  \E email \in Emails, password \in passwords :
    /\ Len(users) + InFlight("createUser_create") < MaxUsers \/ findByEmail(users, email) # Null
    /\ Begin(p, entry, [NoArgs EXCEPT !.email = email, !.password = password])
    /\ pc' = [pc EXCEPT ![p] = "createUser_create"]
    /\ UNCHANGED <<users, local, ret, created, registered, trace>>

(* createUser, lines 18-21: the findByEmail pre-check *)
createUser_find(p, entry, passwords) ==
  \E email \in Emails, password \in passwords :
    /\ Len(users) + InFlight("createUser_create") < MaxUsers \/ findByEmail(users, email) # Null
    /\ Begin(p, entry, [NoArgs EXCEPT !.email = email, !.password = password])
    /\ LET existingUser == findByEmail(users, email)
       IN IF existingUser # Null
          THEN Settle(p, Surface(entry, Rejected("ConflictException", "User already exists")))
          ELSE /\ pc' = [pc EXCEPT ![p] = "createUser_create"]
               /\ UNCHANGED ret
    /\ UNCHANGED <<users, local, created, registered, trace>>

(* createUser, lines 23-26: hash, then prisma.user.create *)
createUser_create(p) ==
  /\ pc[p] = "createUser_create"
  /\ \E salt \in Salts :
       LET hashedPassword == BcryptHash(args[p].password, BcryptRounds, salt)
           res == PrismaCreate(users, [email |-> args[p].email, password |-> hashedPassword,
                                       biometricKeys |-> <<>>])
       IN /\ users' = res.users
          /\ Settle(p, Surface(op[p], res.ret))
          /\ created' = IF res.ret.status = "ok"
                        THEN created \cup {[id |-> res.ret.user.id, email |-> args[p].email,
                                            password |-> args[p].password]}
                        ELSE created
  /\ UNCHANGED <<op, args, local, registered, trace>>

CreateUser(p) == createUser_find(p, "createUser", Plaintexts)

Register(p) == createUser_find(p, "register", Plaintexts)

ConcCreateUser(p) == createUser_find(p, "createUser", ConcPlaintexts)

(* mutant: a match on the target user itself is not treated as a conflict *)
addBiometricKey_scan_otherOnly(p, userIds, biometricKeys) ==
  \E userId \in userIds, biometricKey \in biometricKeys, salt \in Salts :
    /\ TotalKeys(users) + InFlight("addBiometricKey_update") < MaxKeys
         \/ findUserByBiometricKey(users, biometricKey) # Null
    /\ Begin(p, "addBiometricKey", [NoArgs EXCEPT !.userId = userId, !.biometricKey = biometricKey])
    /\ LET hashedBiometricKey == BcryptHash(biometricKey, BcryptRounds, salt)
           existingUser == findUserByBiometricKey(users, biometricKey)
       IN IF existingUser # Null /\ existingUser.id # userId
          THEN /\ Settle(p, Rejected("ConflictException",
                                     "Biometric key already exists for another user"))
               /\ UNCHANGED local
          ELSE /\ pc' = [pc EXCEPT ![p] = "addBiometricKey_update"]
               /\ local' = [local EXCEPT ![p] = hashedBiometricKey]
               /\ UNCHANGED ret
    /\ UNCHANGED <<users, created, registered, trace>>

(* addBiometricKey, lines 37-43: hash, then the store-wide scan *)
addBiometricKey_scan(p, userIds, biometricKeys) ==
  \E userId \in userIds, biometricKey \in biometricKeys, salt \in Salts :
    /\ TotalKeys(users) + InFlight("addBiometricKey_update") < MaxKeys \/ findUserByBiometricKey(users, biometricKey) # Null
    /\ Begin(p, "addBiometricKey", [NoArgs EXCEPT !.userId = userId, !.biometricKey = biometricKey])
    /\ LET hashedBiometricKey == BcryptHash(biometricKey, BcryptRounds, salt)
           existingUser == findUserByBiometricKey(users, biometricKey)
       IN IF existingUser # Null
          THEN /\ Settle(p, Rejected("ConflictException",
                                     "Biometric key already exists for another user"))
               /\ UNCHANGED local
          ELSE /\ pc' = [pc EXCEPT ![p] = "addBiometricKey_update"]
               /\ local' = [local EXCEPT ![p] = hashedBiometricKey]
               /\ UNCHANGED ret
    /\ UNCHANGED <<users, created, registered, trace>>

(* mutant: the update sets the list to the new hash instead of pushing it *)
addBiometricKey_update_set(p) ==
  /\ pc[p] = "addBiometricKey_update"
  /\ LET res == PrismaUpdatePush([i \in 1 .. Len(users) |->
                                   IF users[i].id = args[p].userId
                                   THEN [users[i] EXCEPT !.biometricKeys = <<>>]
                                   ELSE users[i]],
                                 args[p].userId, local[p])
     IN /\ users' = res.users
        /\ Settle(p, Surface(op[p], res.ret))
        /\ registered' = IF res.ret.status = "ok"
                         THEN registered \cup {<<args[p].userId, args[p].biometricKey>>}
                         ELSE registered
  /\ UNCHANGED <<op, args, local, created, trace>>

(* mutant: the write repeats the uniqueness scan atomically with the push *)
addBiometricKey_update_recheck(p) ==
  /\ pc[p] = "addBiometricKey_update"
  /\ LET res == IF findUserByBiometricKey(users, args[p].biometricKey) # Null
                THEN [users |-> users,
                      ret |-> Rejected("ConflictException",
                                       "Biometric key already exists for another user")]
                ELSE PrismaUpdatePush(users, args[p].userId, local[p])
     IN /\ users' = res.users
        /\ Settle(p, Surface(op[p], res.ret))
        /\ registered' = IF res.ret.status = "ok"
                         THEN registered \cup {<<args[p].userId, args[p].biometricKey>>}
                         ELSE registered
  /\ UNCHANGED <<op, args, local, created, trace>>

(* addBiometricKey, lines 46-53: prisma.user.update with push *)
addBiometricKey_update(p) ==
  /\ pc[p] = "addBiometricKey_update"
  /\ LET res == PrismaUpdatePush(users, args[p].userId, local[p])
     IN /\ users' = res.users
        /\ Settle(p, Surface(op[p], res.ret))
        /\ registered' = IF res.ret.status = "ok"
                         THEN registered \cup {<<args[p].userId, args[p].biometricKey>>}
                         ELSE registered
  /\ UNCHANGED <<op, args, local, created, trace>>

AddBiometricKey(p) == addBiometricKey_scan(p, UserIds, Plaintexts)

ConcAddBiometricKey(p) == addBiometricKey_scan(p, 1 .. MaxUsers, ConcPlaintexts)

(* the hash strings stored under `email', which a client may send back as a key *)
OwnHashes(us, email) ==
  LET user == findByEmail(us, email)
  IN {user.biometricKeys[n] : n \in 1 .. Len(user.biometricKeys)}

(* mutant: the record is looked up by email without verifying the password *)
registerWithBiometric_validate_noPassword(p, biometricKeys) ==
  \E email \in Emails, password \in Plaintexts :
  \E biometricKey \in biometricKeys \cup OwnHashes(users, email) :
    LET user == findByEmail(users, email)
    IN /\ \/ TotalKeys(users) + InFlight("addBiometricKey_update")
                + InFlight("registerWithBiometric_add") < MaxKeys
          \/ user = Null
          \/ biometricKeysIncludes(user, biometricKey)
          \/ findUserByBiometricKey(users, biometricKey) # Null
       /\ Begin(p, "registerWithBiometric",
                [NoArgs EXCEPT !.email = email, !.password = password,
                               !.biometricKey = biometricKey, !.user = user, !.userId = user.id])
       /\ IF user = Null
          THEN Settle(p, Surface("registerWithBiometric",
                                 Rejected("BadRequestException", "Invalid email or password")))
          ELSE IF biometricKeysIncludes(user, biometricKey)
          THEN Settle(p, Surface("registerWithBiometric",
                                 Rejected("BadRequestException", "Biometric key already registered")))
          ELSE /\ pc' = [pc EXCEPT ![p] = "registerWithBiometric_add"]
               /\ UNCHANGED ret
       /\ UNCHANGED <<users, local, created, registered, trace>>

(* registerWithBiometric, lines 48-59: validateUser, then the literal check *)
registerWithBiometric_validate(p, biometricKeys) ==
  \E email \in Emails, password \in Plaintexts :
  \E biometricKey \in biometricKeys \cup OwnHashes(users, email) :
    LET user == validateUser(users, email, password)
    IN /\ \/ TotalKeys(users) + InFlight("addBiometricKey_update")
                + InFlight("registerWithBiometric_add") < MaxKeys
          \/ user = Null
          \/ biometricKeysIncludes(user, biometricKey)
          \/ findUserByBiometricKey(users, biometricKey) # Null
       /\ Begin(p, "registerWithBiometric",
                [NoArgs EXCEPT !.email = email, !.password = password,
                               !.biometricKey = biometricKey, !.user = user, !.userId = user.id])
       /\ IF user = Null
          THEN Settle(p, Surface("registerWithBiometric",
                                 Rejected("BadRequestException", "Invalid email or password")))
          ELSE IF biometricKeysIncludes(user, biometricKey)
          THEN Settle(p, Surface("registerWithBiometric",
                                 Rejected("BadRequestException", "Biometric key already registered")))
          ELSE /\ pc' = [pc EXCEPT ![p] = "registerWithBiometric_add"]
               /\ UNCHANGED ret
       /\ UNCHANGED <<users, local, created, registered, trace>>

(* registerWithBiometric, line 62: addBiometricKey's hash and store-wide scan *)
registerWithBiometric_add(p) ==
  /\ pc[p] = "registerWithBiometric_add"
  /\ \E salt \in Salts :
       LET hashedBiometricKey == BcryptHash(args[p].biometricKey, BcryptRounds, salt)
           existingUser == findUserByBiometricKey(users, args[p].biometricKey)
       IN IF existingUser # Null
          THEN /\ Settle(p, Surface(op[p], Rejected("ConflictException",
                                     "Biometric key already exists for another user")))
               /\ UNCHANGED local
          ELSE /\ pc' = [pc EXCEPT ![p] = "addBiometricKey_update"]
               /\ local' = [local EXCEPT ![p] = hashedBiometricKey]
               /\ UNCHANGED ret
  /\ UNCHANGED <<users, op, args, created, registered, trace>>

RegisterWithBiometric(p) ==
  registerWithBiometric_validate(p, Plaintexts)

ResolverLogin(p) ==
  \E email \in Emails, password \in Plaintexts :
    Answer(p, "resolverLogin", [NoArgs EXCEPT !.email = email, !.password = password],
           resolverLogin(users, email, password))

ResolverBiometricLogin(p) ==
  \E biometricKey \in Plaintexts :
    Answer(p, "resolverBiometricLogin", [NoArgs EXCEPT !.biometricKey = biometricKey],
           resolverBiometricLogin(users, biometricKey))

FindByEmail(p) ==
  \E email \in Emails :
    Answer(p, "findByEmail", [NoArgs EXCEPT !.email = email],
           [Resolved EXCEPT !.user = findByEmail(users, email)])

FindAll(p) ==
  Answer(p, "findAll", NoArgs, [Resolved EXCEPT !.list = findAll(users)])

FindUserByBiometricKey(p) ==
  \E biometricKey \in Plaintexts :
    Answer(p, "findUserByBiometricKey", [NoArgs EXCEPT !.biometricKey = biometricKey],
           [Resolved EXCEPT !.user = findUserByBiometricKey(users, biometricKey)])

(* mutant: a userId without a record raises NotFoundException *)
BiometricKeyExists_throws(p) ==
  \E userId \in UserIds, biometricKey \in Plaintexts :
    Answer(p, "biometricKeyExists",
           [NoArgs EXCEPT !.userId = userId, !.biometricKey = biometricKey],
           IF PrismaFindUnique(users, "id", userId) = Null
           THEN Rejected("NotFoundException", "User not found")
           ELSE [Resolved EXCEPT !.exists = biometricKeyExists(users, userId, biometricKey)])

BiometricKeyExists(p) ==
  \E userId \in UserIds, biometricKey \in Plaintexts :
    Answer(p, "biometricKeyExists",
           [NoArgs EXCEPT !.userId = userId, !.biometricKey = biometricKey],
           [Resolved EXCEPT !.exists = biometricKeyExists(users, userId, biometricKey)])

ValidateUser(p) ==
  \E email \in Emails, password \in Plaintexts :
    Answer(p, "validateUser", [NoArgs EXCEPT !.email = email, !.password = password],
           [Resolved EXCEPT !.user = validateUser(users, email, password)])

Login(p) ==
  \E i \in 1 .. Len(users) :
    Answer(p, "login", [NoArgs EXCEPT !.user = users[i]], login(users[i]))

BiometricLogin(p) ==
  \E biometricKey \in Plaintexts :
    Answer(p, "biometricLogin", [NoArgs EXCEPT !.biometricKey = biometricKey],
           biometricLogin(users, biometricKey))

Next ==
  \/ CreateUser(SeqProc)
  \/ Register(SeqProc)
  \/ createUser_create(SeqProc)
  \/ AddBiometricKey(SeqProc)
  \/ addBiometricKey_update(SeqProc)
  \/ FindByEmail(SeqProc)
  \/ FindAll(SeqProc)
  \/ FindUserByBiometricKey(SeqProc)
  \/ BiometricKeyExists(SeqProc)
  \/ ValidateUser(SeqProc)
  \/ Login(SeqProc)
  \/ BiometricLogin(SeqProc)
  \/ Return(SeqProc)

Spec == Init /\ [][Next]_vars

ApiNext ==
  \/ Register(SeqProc)
  \/ createUser_create(SeqProc)
  \/ RegisterWithBiometric(SeqProc)
  \/ registerWithBiometric_add(SeqProc)
  \/ AddBiometricKey(SeqProc)
  \/ addBiometricKey_update(SeqProc)
  \/ ResolverLogin(SeqProc)
  \/ ResolverBiometricLogin(SeqProc)
  \/ Return(SeqProc)

ApiSpec == Init /\ [][ApiNext]_vars

(* The end-to-end run of the API: register, login, failed login, key
   registration, biometric login, failed biometric login.  `trace' keeps the
   result of each finished call; its length is the position in the run. *)
Record(p) ==
  /\ Consume(p)
  /\ trace' = Append(trace, [op |-> op[p], ret |-> ret[p]])

ScenarioRegister ==
  /\ Len(trace) = 0
  /\ Register(SeqProc)

ScenarioLogin ==
  /\ Len(trace) = 1
  /\ ResolverLogin(SeqProc)
  /\ \E c \in created : args'[SeqProc].email = c.email /\ args'[SeqProc].password = c.password

ScenarioLoginWrong ==
  /\ Len(trace) = 2
  /\ ResolverLogin(SeqProc)
  /\ \E c \in created : args'[SeqProc].email = c.email /\ args'[SeqProc].password # c.password

ScenarioAddBiometricKey ==
  /\ Len(trace) = 3
  /\ AddBiometricKey(SeqProc)
  /\ \E c \in created : args'[SeqProc].userId = c.id

ScenarioBiometricLogin ==
  /\ Len(trace) = 4
  /\ ResolverBiometricLogin(SeqProc)
  /\ \E r \in registered : args'[SeqProc].biometricKey = r[2]

ScenarioBiometricLoginUnknown ==
  /\ Len(trace) = 5
  /\ ResolverBiometricLogin(SeqProc)
  /\ \A r \in registered : args'[SeqProc].biometricKey # r[2]

ScenarioNext ==
  \/ ScenarioRegister
  \/ createUser_create(SeqProc)
  \/ ScenarioLogin
  \/ ScenarioLoginWrong
  \/ ScenarioAddBiometricKey
  \/ addBiometricKey_update(SeqProc)
  \/ ScenarioBiometricLogin
  \/ ScenarioBiometricLoginUnknown
  \/ Record(SeqProc)

ScenarioSpec == Init /\ [][ScenarioNext]_vars

ConcFindUserByBiometricKey(p) ==
  \E biometricKey \in ConcPlaintexts :
    Answer(p, "findUserByBiometricKey", [NoArgs EXCEPT !.biometricKey = biometricKey],
           [Resolved EXCEPT !.user = findUserByBiometricKey(users, biometricKey)])

ConcNext ==
  \E p \in Procs :
    \/ ConcCreateUser(p)
    \/ createUser_create(p)
    \/ ConcAddBiometricKey(p)
    \/ addBiometricKey_update(p)
    \/ ConcFindUserByBiometricKey(p)
    \/ Return(p)

ConcSpec == Init /\ [][ConcNext]_vars

(* ------------------------------ properties ----------------------------- *)
(* the records of `us' that hold a stored hash verifying against `key' *)
Holders(us, key) ==
  {i \in 1 .. Len(us) :
     \E n \in 1 .. Len(us[i].biometricKeys) : BcryptCompare(key, us[i].biometricKeys[n])}

Done(p, entry) == pc[p] = "done" /\ op[p] = entry

(* C1: under sequential createUser / addBiometricKey calls, every plaintext
   biometric key verifies against the stored hashes of at most one record. *)
C1_KeyHeldByAtMostOneUser ==
  \A key \in Plaintexts : Cardinality(Holders(users, key)) <= 1

(* C1 witness: two records each hold a key, and an attempt to add the first
   record's key to the other record has been rejected. *)
C1_Witness ==
  /\ Done(SeqProc, "addBiometricKey")
  /\ ret[SeqProc].error = "ConflictException"
  /\ Len(users) = 2
  /\ \A i \in 1 .. 2 : users[i].biometricKeys # <<>>
  /\ Holders(users, args[SeqProc].biometricKey) # {}
  /\ \A i \in Holders(users, args[SeqProc].biometricKey) : users[i].id # args[SeqProc].userId

(* C2: createUser / register called while a record with that email exists
   fails with ConflictException and leaves the store as it was. *)
C2_DuplicateEmailConflict ==
  [][\A p \in Procs :
       (/\ pc[p] = "idle"
        /\ pc'[p] # "idle"
        /\ op'[p] \in {"createUser", "register"}
        /\ \E i \in 1 .. Len(users) : users[i].email = args'[p].email)
       => (/\ pc'[p] = "done"
           /\ ret'[p].status = "error"
           /\ ret'[p].error = "ConflictException"
           /\ ret'[p].message = <<"User already exists">>
           /\ users' = users)]_vars

(* C2 witness: a register call for a registered email has ended in conflict. *)
C2_Witness ==
  /\ Done(SeqProc, "register")
  /\ ret[SeqProc].error = "ConflictException"
  /\ \E i \in 1 .. Len(users) : users[i].email = args[SeqProc].email

(* C3: validateUser with the pair a record was created with returns that
   record; its stored password is a hash that verifies against the plaintext
   and no record stores the plaintext itself. *)
C3_CreateThenValidate ==
  /\ \A c \in created :
       /\ (Done(SeqProc, "validateUser")
           /\ args[SeqProc].email = c.email
           /\ args[SeqProc].password = c.password)
          => /\ ret[SeqProc].status = "ok"
             /\ ret[SeqProc].user.id = c.id
             /\ ret[SeqProc].user.email = c.email
             /\ ret[SeqProc].user \in {users[i] : i \in 1 .. Len(users)}
             /\ BcryptCompare(c.password, ret[SeqProc].user.password)
       /\ \E i \in 1 .. Len(users) :
            /\ users[i].id = c.id
            /\ users[i].password # c.password
            /\ BcryptCompare(c.password, users[i].password)
  /\ \A i \in 1 .. Len(users) :
       /\ users[i].password \notin Plaintexts
       /\ \E c \in created : c.id = users[i].id /\ c.email = users[i].email

(* C3 witness: validateUser has returned a user. *)
C3_Witness ==
  /\ Done(SeqProc, "validateUser")
  /\ ret[SeqProc].user # Null
  /\ \E c \in created : c.email = args[SeqProc].email /\ c.password = args[SeqProc].password

(* C4: validateUser never throws and returns the same absent result for an
   unknown email as for a known email with a password that does not verify. *)
C4_ValidateAbsent ==
  Done(SeqProc, "validateUser") =>
    LET known == {i \in 1 .. Len(users) : users[i].email = args[SeqProc].email}
    IN /\ ret[SeqProc].status = "ok"
       /\ known = {} => ret[SeqProc] = [Resolved EXCEPT !.user = Null]
       /\ (known # {} /\ \A i \in known : ~BcryptCompare(args[SeqProc].password, users[i].password))
            => ret[SeqProc] = [Resolved EXCEPT !.user = Null]

(* C4 witness: a known email with a wrong password was answered with absent. *)
C4_Witness ==
  /\ Done(SeqProc, "validateUser")
  /\ \E i \in 1 .. Len(users) :
       /\ users[i].email = args[SeqProc].email
       /\ ~BcryptCompare(args[SeqProc].password, users[i].password)
  /\ ret[SeqProc].user = Null

(* C5 as stated: once some key was added for userId, biometricKeyExists
   answers false for every other plaintext. *)
C5_OtherKeyNeverExists ==
  (/\ Done(SeqProc, "biometricKeyExists")
   /\ \E r \in registered : r[1] = args[SeqProc].userId /\ r[2] # args[SeqProc].biometricKey)
  => ret[SeqProc].exists = FALSE

(* C5 amended: biometricKeyExists(userId, k) answers true exactly when k was
   itself added for userId, so a different key is answered false only if it
   was never added for that user. *)
C5_ExistsIffAddedForUser ==
  Done(SeqProc, "biometricKeyExists") =>
    /\ ret[SeqProc].status = "ok"
    /\ ret[SeqProc].exists =
         (<<args[SeqProc].userId, args[SeqProc].biometricKey>> \in registered)

(* C5 witness: the user holds two keys; one is asked for and found. *)
C5_Witness ==
  /\ Done(SeqProc, "biometricKeyExists")
  /\ ret[SeqProc].exists
  /\ \E r \in registered : r[1] = args[SeqProc].userId /\ r[2] # args[SeqProc].biometricKey

(* C6: findUserByBiometricKey returns absent exactly when no record holds a
   verifying hash, and otherwise the first record, in store order, that
   holds one. *)
C6_FirstHolderOrAbsent ==
  [][\A p \in Procs :
       (pc[p] = "idle" /\ pc'[p] = "done" /\ op'[p] = "findUserByBiometricKey")
       => LET holders == Holders(users, args'[p].biometricKey)
          IN /\ ret'[p].status = "ok"
             /\ (holders = {}) <=> (ret'[p].user = Null)
             /\ holders # {} =>
                  \E i \in holders : /\ \A j \in holders : i <= j
                                      /\ ret'[p].user = users[i]]_vars

(* C6 witness: two records hold a verifying hash and the first was returned. *)
C6_Witness ==
  \E p \in Procs :
    /\ Done(p, "findUserByBiometricKey")
    /\ Cardinality(Holders(users, args[p].biometricKey)) = 2
    /\ ret[p].user = users[1]

(* C7: addBiometricKey is rejected with ConflictException whenever any
   record, the target included, holds a verifying hash; nothing is stored. *)
C7_DuplicateKeyConflict ==
  [][\A p \in Procs :
       (/\ pc[p] = "idle"
        /\ pc'[p] # "idle"
        /\ op'[p] = "addBiometricKey"
        /\ Holders(users, args'[p].biometricKey) # {})
       => (/\ pc'[p] = "done"
           /\ ret'[p].status = "error"
           /\ ret'[p].error = "ConflictException"
           /\ users' = users)]_vars

(* C7 witness: the target user itself already held the key. *)
C7_Witness ==
  /\ Done(SeqProc, "addBiometricKey")
  /\ ret[SeqProc].error = "ConflictException"
  /\ \E i \in Holders(users, args[SeqProc].biometricKey) : users[i].id = args[SeqProc].userId

(* C8: biometricLogin fails with 'Invalid biometric key' and no token when
   findUserByBiometricKey is absent, else issues a token for that user. *)
C8_BiometricLogin ==
  Done(SeqProc, "biometricLogin") =>
    LET user == findUserByBiometricKey(users, args[SeqProc].biometricKey)
    IN IF user = Null
       THEN /\ ret[SeqProc].status = "error"
            /\ ret[SeqProc].error = "BadRequestException"
            /\ ret[SeqProc].message = <<"Invalid biometric key">>
            /\ ret[SeqProc].token = NoToken
       ELSE /\ ret[SeqProc].status = "ok"
            /\ ret[SeqProc].token.payload.sub = user.id
            /\ ret[SeqProc].token.payload.email = user.email

(* C8 witness: a token was issued by biometricLogin. *)
C8_Witness ==
  /\ Done(SeqProc, "biometricLogin")
  /\ ret[SeqProc].status = "ok"
  /\ ret[SeqProc].token.payload.sub \in {users[i].id : i \in 1 .. Len(users)}

(* C9: login signs exactly {email, sub: id} of the given user. *)
C9_LoginClaims ==
  Done(SeqProc, "login") =>
    /\ ret[SeqProc].status = "ok"
    /\ DOMAIN ret[SeqProc].token.payload = {"email", "sub"}
    /\ ret[SeqProc].token.payload.email = args[SeqProc].user.email
    /\ ret[SeqProc].token.payload.sub = args[SeqProc].user.id

(* C9 witness: a token was signed for a user that holds biometric hashes. *)
C9_Witness ==
  /\ Done(SeqProc, "login")
  /\ args[SeqProc].user.biometricKeys # <<>>
  /\ ret[SeqProc].token.payload.sub = args[SeqProc].user.id

(* C10: no two records share an email, also when concurrent createUser
   calls for one email both passed the findByEmail pre-check. *)
C10_EmailUnique ==
  \A i, j \in 1 .. Len(users) : users[i].email = users[j].email => i = j

(* C10 witness: a createUser that had passed the pre-check was rejected by
   the store because the other call created the record first. *)
C10_Witness ==
  \E p \in Procs :
    /\ Done(p, "createUser")
    /\ ret[p].error = "PrismaClientKnownRequestError"
    /\ \E i \in 1 .. Len(users) : users[i].email = args[p].email

(* C11: every change of the store either creates one record with an empty
   key sequence or appends one hash to the end of one existing record's
   sequence; nothing else about any record changes. *)
C11_CreateOrAppendOnly ==
  [][users' # users =>
       \/ /\ Len(users') = Len(users) + 1
          /\ SubSeq(users', 1, Len(users)) = users
          /\ users'[Len(users')].biometricKeys = <<>>
       \/ /\ Len(users') = Len(users)
          /\ \E i \in 1 .. Len(users) :
               /\ \A j \in 1 .. Len(users) : j # i => users'[j] = users[j]
               /\ users'[i].id = users[i].id
               /\ users'[i].email = users[i].email
               /\ users'[i].password = users[i].password
               /\ Len(users'[i].biometricKeys) = Len(users[i].biometricKeys) + 1
               /\ SubSeq(users'[i].biometricKeys, 1, Len(users[i].biometricKeys))
                    = users[i].biometricKeys]_vars

(* C11 witness: two records were created and one of them received two
   hashes, one after the other. *)
C11_Witness ==
  /\ Len(users) = 2
  /\ \E i \in 1 .. 2 : Len(users[i].biometricKeys) = 2
  /\ Len(users[1].biometricKeys) + Len(users[2].biometricKeys) = 2

(* C12: nothing between addBiometricKey's scan and its write excludes a
   concurrent registration of the same plaintext: a call that passed the scan
   always persists its hash when its target record exists, whatever the
   store holds by then, so two concurrent calls with one plaintext both
   succeed. *)
C12_WriteAfterScanNeverRechecks ==
  [][\A p \in Procs :
       (/\ pc[p] = "addBiometricKey_update"
        /\ pc'[p] = "done"
        /\ \E i \in 1 .. Len(users) : users[i].id = args[p].userId)
       => /\ ret'[p].status = "ok"
          /\ \E i \in 1 .. Len(users) :
               /\ users[i].id = args[p].userId
               /\ users'[i].biometricKeys = Append(users[i].biometricKeys, local[p])
          /\ Holders(users', args[p].biometricKey) # {}]_vars

(* C12 witness: two concurrent addBiometricKey calls with the same plaintext,
   for different users, have both succeeded and both hashes are stored. *)
C12_Witness ==
  /\ \A p \in Procs : Done(p, "addBiometricKey") /\ ret[p].status = "ok"
  /\ args["p1"].biometricKey = args["p2"].biometricKey
  /\ args["p1"].userId # args["p2"].userId
  /\ Cardinality(Holders(users, args["p1"].biometricKey)) = 2

(* C13: from an empty store the run register(a, pw1); login(a, pw1);
   login(a, wrong); addBiometricKey(id of a, bio1); biometricLogin(bio1);
   biometricLogin(unknown) yields success, a token, 'Login failed', success,
   a token whose subject is a, and 'Login failed'. *)
C13_EndToEnd ==
  LET n == Len(trace)
      failure == Rejected("BadRequestException", "Login failed")
  IN /\ n >= 1 => /\ trace[1].op = "register"
                  /\ trace[1].ret.status = "ok"
                  /\ Len(users) = 1
                  /\ trace[1].ret.message = <<"User ", users[1].email, " registered successfully">>
     /\ n >= 2 => /\ trace[2].op = "resolverLogin"
                  /\ trace[2].ret.status = "ok"
                  /\ trace[2].ret.token.payload = [email |-> users[1].email, sub |-> users[1].id]
     /\ n >= 3 => trace[3].op = "resolverLogin" /\ trace[3].ret = failure
     /\ n >= 4 => /\ trace[4].op = "addBiometricKey"
                  /\ trace[4].ret.status = "ok"
                  /\ trace[4].ret.user = users[1]
     /\ n >= 5 => /\ trace[5].op = "resolverBiometricLogin"
                  /\ trace[5].ret.status = "ok"
                  /\ trace[5].ret.token.payload.sub = users[1].id
                  /\ trace[5].ret.token = trace[2].ret.token
     /\ n >= 6 => trace[6].op = "resolverBiometricLogin" /\ trace[6].ret = failure

(* C13 witness: the run has reached its sixth result. *)
C13_Witness ==
  /\ Len(trace) = 6
  /\ trace[5].ret.token.payload.sub = users[1].id
  /\ trace[6].ret.status = "error"

(* C14: the API's failure response does not depend on the cause: login
   answers 'Login failed' for an unknown email and for a wrong password,
   biometricLogin answers 'Login failed' for a key nothing verifies against,
   and registerWithBiometric answers 'Failed to set up biometric key' for
   invalid credentials and for a duplicate key alike. *)
C14_FailureIndependentOfCause ==
  LET a == args[SeqProc]
      loginFailed == Rejected("BadRequestException", "Login failed")
      setupFailed == Rejected("BadRequestException", "Failed to set up biometric key")
      known == {i \in 1 .. Len(users) : users[i].email = a.email}
      verified == {i \in known : BcryptCompare(a.password, users[i].password)}
  IN /\ Done(SeqProc, "resolverLogin") =>
          /\ ret[SeqProc].status = "error" => ret[SeqProc] = loginFailed
          /\ known = {} => ret[SeqProc] = loginFailed
          /\ (known # {} /\ verified = {}) => ret[SeqProc] = loginFailed
     /\ Done(SeqProc, "resolverBiometricLogin") =>
          /\ ret[SeqProc].status = "error" => ret[SeqProc] = loginFailed
          /\ Holders(users, a.biometricKey) = {} => ret[SeqProc] = loginFailed
     /\ Done(SeqProc, "registerWithBiometric") =>
          /\ ret[SeqProc].status = "error" => ret[SeqProc] = setupFailed
          /\ verified = {} => ret[SeqProc] = setupFailed
          /\ (verified # {} /\ ret[SeqProc].status = "error") =>
               \/ Holders(users, a.biometricKey) # {}
               \/ \E i \in verified : biometricKeysIncludes(users[i], a.biometricKey)

(* C14 witness: registerWithBiometric with valid credentials was refused for
   a duplicate key, with the response that invalid credentials get. *)
C14_Witness ==
  /\ Done(SeqProc, "registerWithBiometric")
  /\ validateUser(users, args[SeqProc].email, args[SeqProc].password) # Null
  /\ Holders(users, args[SeqProc].biometricKey) # {}
  /\ ret[SeqProc] = Rejected("BadRequestException", "Failed to set up biometric key")

(* C15: registerWithBiometric validates the password first: with absent
   validateUser the call fails and the store is unchanged, and a call that
   changes the store appends exactly one hash, to the record of the user
   validateUser returned and to no other. *)
C15_ValidateThenAppendToValidatedUser ==
  [][\A p \in Procs :
       /\ (/\ pc[p] = "idle"
           /\ op'[p] = "registerWithBiometric"
           /\ \A i \in 1 .. Len(users) :
                users[i].email = args'[p].email
                  => ~BcryptCompare(args'[p].password, users[i].password))
          => (pc'[p] = "done" /\ ret'[p].status = "error" /\ users' = users)
       /\ (/\ op[p] = "registerWithBiometric"
           /\ pc'[p] # pc[p]
           /\ users' # users)
          => /\ Len(users') = Len(users)
             /\ \E i \in 1 .. Len(users) :
                  /\ users[i].email = args[p].email
                  /\ BcryptCompare(args[p].password, users[i].password)
                  /\ users[i].id = args[p].user.id
                  /\ \E h \in {local[p]} :
                       users' = [users EXCEPT ![i].biometricKeys = Append(@, h)]]_vars

(* C15 witness: with two records in the store, registerWithBiometric has
   added a key to the validated one. *)
C15_Witness ==
  /\ Done(SeqProc, "registerWithBiometric")
  /\ ret[SeqProc].status = "ok"
  /\ Len(users) = 2
  /\ \E i \in 1 .. 2 :
       /\ users[i].email = args[SeqProc].email
       /\ Holders(users, args[SeqProc].biometricKey) = {i}

(* C16: the two duplicate checks of the biometric-registration path
   disagree: on a plaintext registered for a user the resolver's literal
   membership test reports no duplicate while addBiometricKey's store-wide
   verification rejects it, and on a stored hash string sent as the key the
   literal test rejects while the verification would accept. *)
C16_DuplicateChecksDisagree ==
  \A i \in 1 .. Len(users) :
    /\ \A key \in Plaintexts :
         <<users[i].id, key>> \in registered
           => /\ ~biometricKeysIncludes(users[i], key)
              /\ findUserByBiometricKey(users, key) # Null
    /\ \A n \in 1 .. Len(users[i].biometricKeys) :
         /\ biometricKeysIncludes(users[i], users[i].biometricKeys[n])
         /\ findUserByBiometricKey(users, users[i].biometricKeys[n]) = Null

(* C16 witness: registerWithBiometric has refused a stored hash string by
   the literal test although no stored hash verifies against it, in a state
   where a registered plaintext passes the literal test and fails the scan. *)
C16_Witness ==
  /\ Done(SeqProc, "registerWithBiometric")
  /\ ret[SeqProc].status = "error"
  /\ args[SeqProc].user # Null
  /\ biometricKeysIncludes(args[SeqProc].user, args[SeqProc].biometricKey)
  /\ findUserByBiometricKey(users, args[SeqProc].biometricKey) = Null
  /\ \E key \in Plaintexts :
       /\ <<args[SeqProc].user.id, key>> \in registered
       /\ ~biometricKeysIncludes(args[SeqProc].user, key)
       /\ findUserByBiometricKey(users, key) # Null

(* C17: the API issues a token only after a credential was verified in the
   same call: login only for an (email, password) that validates, and
   biometricLogin only for a key some stored hash verifies against; the
   subject is the id of the stored record whose credential was verified. *)
C17_TokenOnlyAfterVerification ==
  LET a == args[SeqProc]
      r == ret[SeqProc]
  IN /\ Done(SeqProc, "resolverLogin") =>
          /\ r.token # NoToken <=> r.status = "ok"
          /\ r.status = "ok" =>
               /\ validateUser(users, a.email, a.password) # Null
               /\ \E i \in 1 .. Len(users) :
                    /\ users[i].email = a.email
                    /\ BcryptCompare(a.password, users[i].password)
                    /\ r.token.payload.sub = users[i].id
     /\ Done(SeqProc, "resolverBiometricLogin") =>
          /\ r.token # NoToken <=> r.status = "ok"
          /\ r.status = "ok" =>
               \E i \in Holders(users, a.biometricKey) : r.token.payload.sub = users[i].id

(* C17 witness: with two records stored, login has issued a token for the
   record whose password was verified. *)
C17_Witness ==
  /\ Done(SeqProc, "resolverLogin")
  /\ ret[SeqProc].status = "ok"
  /\ Len(users) = 2
  /\ \E i \in 1 .. 2 : /\ users[i].email = args[SeqProc].email
                        /\ ret[SeqProc].token.payload.sub = users[i].id

(* C18: findByEmail, findAll, findUserByBiometricKey, biometricKeyExists,
   validateUser, login and biometricLogin leave the store unchanged whatever
   they answer, and biometricKeyExists for a userId without a record answers
   false instead of failing. *)
C18_ReadsLeaveStoreUnchanged ==
  [][\A p \in Procs :
       (/\ pc[p] = "idle"
        /\ op'[p] \in {"findByEmail", "findAll", "findUserByBiometricKey", "biometricKeyExists",
                        "validateUser", "login", "biometricLogin"})
       => /\ users' = users
          /\ pc'[p] = "done"
          /\ (/\ op'[p] = "biometricKeyExists"
              /\ \A i \in 1 .. Len(users) : users[i].id # args'[p].userId)
             => (ret'[p].status = "ok" /\ ret'[p].exists = FALSE)]_vars

(* C18 witness: biometricKeyExists was asked about a userId that has no
   record, while another record holds the key, and answered false. *)
C18_Witness ==
  /\ Done(SeqProc, "biometricKeyExists")
  /\ \A i \in 1 .. Len(users) : users[i].id # args[SeqProc].userId
  /\ Holders(users, args[SeqProc].biometricKey) # {}
  /\ ret[SeqProc].status = "ok"
  /\ ret[SeqProc].exists = FALSE

====
